---- MODULE Spec2Model ----
(***************************************************************************)
(* Model of src/index.js: a single-run scraping pipeline.                  *)
(*   main()                  the top-level flow (launch .. close, catch)   *)
(*   captureListingSection() the section capturer                          *)
(*   analyzeImageWithGPT4Vision() the guarded vision call                  *)
(*   mergeResults()          the reconciler (parse, flatten, deduplicate)  *)
(* Three specifications share the variables:                               *)
(*   Spec       a run of main(), or one direct call of                     *)
(*              captureListingSection(page, listings, startIndex, endIndex)*)
(*   SpecMerge  one direct call of mergeResults(results)                   *)
(***************************************************************************)
EXTENDS Integers, Sequences, FiniteSets, TLC

VARIABLES
    entry,      \* which function the run enters: "main", "capture", "merge",
                \* "fence" (two mergeResults calls compared), "scroll", "locate"
    pc,         \* position of the single flow of control
    browser,    \* "none", "open", "closed"
    dom,        \* the page: what each locator strategy's query finds in it
    listings,   \* const listings (line 375), a sequence of ListingGeometry
    i,          \* loop variable of the batch loop (line 386), 0-based
    capStart,   \* startIndex argument of the current captureListingSection call
    capEnd,     \* endIndex argument of the current captureListingSection call
    capRet,     \* value the call returned: <<>> for null, <<section>> otherwise
    scrollY,    \* top passed to the last window.scrollTo: <<>> before any, else <<y>>
    imgPending, \* number of images in the document that are not loaded yet
    shots,      \* number of page.screenshot calls made
    analysis,   \* value analyzeImageWithGPT4Vision returned for the batch
    results,    \* const results (line 384): raw outputs pushed so far
    merged,     \* outcome of mergeResults: <<>> before it ran
    images,     \* section numbers whose screenshot_section_<n>.jpg exists
    artifact,   \* content of extracted_data.json: <<>> when not written
    sections,   \* the non-null sections captureListingSection returned to main
    outputs,    \* what each vision call of the run gave back, in order
    log,        \* history of the calls made, in order
    polled,     \* what the last checkImages run of the current call found: <<>>
                \* before any, else <<number of images not loaded>>
    scroll      \* the locals of autoScroll's promise (lines 57-62), its timer,
                \* the document's scroll height and the heights the ticks read

vars == <<entry, pc, browser, dom, listings, i, capStart, capEnd, capRet,
          scrollY, imgPending, shots, analysis, results, merged, images,
          artifact, sections, outputs, log, scroll, polled>>

\* ---------------------------------------------------------------- bounds
MaxN == 7          \* most listings on the page in a run of main
MaxGeomLen == 3    \* longest geometry list of a direct capture call
MaxPending == 1    \* most images still loading after a scroll
MaxResults == 3    \* longest raw-output sequence of a direct merge call

\* ------------------------------------------------------ program constants
itemsPerSection == 3
capturePadding == 20
listingPadding == 20

Min(a, b) == IF a < b THEN a ELSE b

\* ------------------------------------------------------------ geometry
\* An element as the page reports it: offsetTop, getBoundingClientRect().height
\* and width, computed margins as parseInt(...) || 0 reads them, and what the
\* validation looks at: an img inside, offsetHeight and offsetWidth, the length
\* of the trimmed text, a price word or a year in the text. Element gives a
\* listing card that passes the validation.
Element(ot, h, mt, mb) ==
    [offsetTop |-> ot, rectHeight |-> h, rectWidth |-> 400,
     marginTop |-> mt, marginBottom |-> mb,
     hasImage |-> TRUE, offsetHeight |-> h, offsetWidth |-> 400,
     textLength |-> 120, hasPrice |-> TRUE, hasYear |-> FALSE]

\* The validation predicate (lines 138-148).
IsValid(el) ==
    LET isVisible == el.offsetHeight > 100 /\ el.offsetWidth > 100
        hasContent == el.textLength > 50
    IN  el.hasImage /\ isVisible /\ hasContent /\ (el.hasPrice \/ el.hasYear)

\* A page as the four strategies see it (lines 122-135): sel[k] is the node
\* list of the selector of strategy k = 1, 2, 3 in document order; closest
\* holds, for each image strategy 4 selects, img.closest(...): <<>> for null,
\* <<el>> for the ancestor found.
Page(s1, s2, s3, cl) == [sel |-> <<s1, s2, s3>>, closest |-> cl]

\* A page whose listing cards carry the classes of strategies 1 and 3.
PageOf(els) == Page(els, <<>>, els, <<>>)

\* .filter(el => el !== null) (line 137) on the values of closest.
RECURSIVE NonNull(_)
NonNull(opts) ==
    IF opts = <<>> THEN <<>> ELSE Head(opts) \o NonNull(Tail(opts))

\* Array.from(strategy()).filter(el => el !== null) for strategy k (line 137).
Candidates(page, k) == IF k = 4 THEN NonNull(page.closest) ELSE page.sel[k]

\* Mutant: the first strategy that finds any element is taken, validated or not.
FindElements_firstNonEmpty(page) ==
    LET found == { k \in 1..4 : Candidates(page, k) # <<>> }
    IN  IF found = {} THEN <<>>
        ELSE SelectSeq(Candidates(page, CHOOSE k \in found : \A m \in found : k <= m),
                       IsValid)

\* The for loop over the strategies from strategy k on (lines 136-154).
RECURSIVE FindFrom(_, _)
FindFrom(page, k) ==
    IF k > 4 THEN <<>>
    ELSE LET validElements == SelectSeq(Candidates(page, k), IsValid)
         IN  IF Len(validElements) > 0 THEN validElements
             ELSE FindFrom(page, k + 1)

\* findElements (lines 121-155).
FindElements(page) == FindFrom(page, 1)

\* getVehicleListings, the map callback (lines 158-171).
ListingGeometry(el) ==
    [top    |-> el.offsetTop - el.marginTop,
     height |-> el.rectHeight + el.marginTop + el.marginBottom + listingPadding,
     width  |-> el.rectWidth,
     bottom |-> el.offsetTop + el.rectHeight + el.marginBottom + listingPadding]

GeometryOf(els) == [j \in 1..Len(els) |-> ListingGeometry(els[j])]

\* listings.slice(startIndex, endIndex) for non-negative arguments (line 178).
Slice(ls, s, e) ==
    LET hi == Min(e, Len(ls))
    IN  IF hi <= s THEN <<>> ELSE [j \in 1..(hi - s) |-> ls[s + j]]

\* Section boundaries (lines 182-186).
StartY(section) == section[1].top - capturePadding
EndY(section) == section[Len(section)].bottom + capturePadding
SectionHeight(section) == EndY(section) - StartY(section)

\* Mutant: the returned endIndex is not clamped to the number of listings.
SectionCapture_unclamped(ls, s, e) ==
    LET section == Slice(ls, s, e)
    IN  [screenshot |-> [y |-> StartY(section), height |-> SectionHeight(section)],
         itemCount  |-> Len(section),
         startIndex |-> s,
         endIndex   |-> e,
         dimensions |-> [startY |-> StartY(section), endY |-> EndY(section),
                         height |-> SectionHeight(section)]]

\* The object captureListingSection returns (lines 217-238).
SectionCapture(ls, s, e) ==
    LET section == Slice(ls, s, e)
    IN  [screenshot |-> [y |-> StartY(section), height |-> SectionHeight(section)],
         itemCount  |-> Len(section),
         startIndex |-> s,
         endIndex   |-> Min(e, Len(ls)),
         dimensions |-> [startY |-> StartY(section), endY |-> EndY(section),
                         height |-> SectionHeight(section)]]

\* ------------------------------------------------------- vehicle records
\* An absent (undefined) value is the empty sequence, a present one <<value>>.
Absent == <<>>
Some(x) == <<x>>

\* A VehicleRecord: title and specifications may be absent, and so may
\* specifications.stock_number; price tells otherwise equal records apart.
Vehicle(title, specifications, price) ==
    [title |-> title, specifications |-> specifications, price |-> price]
Specs(stock) == Some([stock_number |-> stock])

vNoSpec == Vehicle(Some("B"), Absent, 1)
vU1 == Vehicle(Absent, Specs(Absent), 1)
vU2 == Vehicle(Absent, Specs(Absent), 2)
vAB1 == Vehicle(Some("B"), Specs(Some("A")), 1)
vAB2 == Vehicle(Some("B"), Specs(Some("A")), 2)
vC1 == Vehicle(Some("-B"), Specs(Some("A")), 1)
vC2 == Vehicle(Some("B"), Specs(Some("A-")), 2)
\* Records whose title text itself holds the characters ``` or ```json,
\* written <fence> inside the strings of this module.
vF1 == Vehicle(Some("<fence>B"), Specs(Some("A")), 1)
vF2 == Vehicle(Some("<fence>jsonB"), Specs(Some("A")), 2)

\* The vehicles arrays of the JSON documents the vision service answers with.
VehicleLists ==
    { <<>>, <<vU1>>, <<vU2>>, <<vAB1>>, <<vAB1, vU1>>, <<vU2, vAB2>>,
      <<vC1>>, <<vC2, vAB1>>, <<vNoSpec>>, <<vAB2, vNoSpec>> }

\* ---------------------------------------------------------- autoScroll
distance == 100        \* const distance (line 58)
maxRetries == 50       \* const maxRetries (line 60)
stallChecks == 5       \* unchangedCount >= 5 (line 73)
viewportHeight == 2160 \* setViewport height (line 352)

\* document.documentElement.scrollHeight is never below the viewport height.
\* The document is a number of viewport-high blocks; lazy loading adds a block
\* and a collapsing element removes one. The most blocks let the document
\* grow before every tick of the longest run.
MaxBlocks == maxRetries + 2
ScrollHeightOf(blocks) == viewportHeight * blocks

\* What happens to the document between two ticks.
BlocksAfter(blocks) ==
    { b \in {blocks - 1, blocks, blocks + 1} : 1 <= b /\ b <= MaxBlocks }

\* The pages main scrolls hold their content in one block and load at most
\* one more block lazily while they are scrolled.
RunBlocks == 1..2
BlocksOfRun(blocks) == {blocks, blocks + 1} \cap RunBlocks

\* What the document can be at the next tick: any change in a call of
\* autoScroll on its own, lazy loading in a run of main.
DocumentAfter(e, blocks) ==
    IF e = "main" THEN BlocksOfRun(blocks) ELSE BlocksAfter(blocks)

\* Not inside autoScroll.
ScrollIdle ==
    [totalHeight |-> 0, retries |-> 0, lastHeight |-> 0, unchangedCount |-> 0,
     timer |-> "none", resolved |-> 0, blocks |-> 1, seen |-> <<>>]

\* Lines 57-64: the locals as declared, the interval timer set.
ScrollStart == [ScrollIdle EXCEPT !.timer = "running"]

\* The heights read by the last stallChecks + 1 ticks, newest last.
Remember(seen, h) ==
    LET all == Append(seen, h)
    IN  IF Len(all) > stallChecks + 1 THEN Tail(all) ELSE all

\* One run of the interval callback (lines 65-87) reading scrollHeight h;
\* stallAt is the count at which the stall branch stops the timer.
TickWith(sc, h, stallAt) ==
    LET same == sc.lastHeight = h
        count == IF same THEN sc.unchangedCount + 1 ELSE 0
        stalled == same /\ count >= stallAt
        ceiling == sc.retries >= maxRetries
    IN  [totalHeight |-> sc.totalHeight + distance,
         retries |-> sc.retries + 1,
         lastHeight |-> IF same THEN sc.lastHeight ELSE h,
         unchangedCount |-> count,
         timer |-> IF stalled \/ ceiling THEN "cleared" ELSE sc.timer,
         resolved |-> sc.resolved + (IF stalled THEN 1 ELSE 0)
                                  + (IF ceiling THEN 1 ELSE 0),
         blocks |-> sc.blocks,
         seen |-> Remember(sc.seen, h)]

\* ------------------------------------------------------------ raw text
\* A raw extraction text is a sequence of tokens:
\*   fj    the characters ```json        f   the characters ```
\*   nl    a newline                     sp  a space
\*   x     text that is not JSON
\*   null  the JSON literal null
\*   obj   a JSON object without a vehicles field
\*   objv  a JSON object whose vehicles field is the array v
Tok(k) == [k |-> k, v |-> <<>>]
DocTok(vs) == [k |-> "objv", v |-> vs]
Null == [isNull |-> TRUE, text |-> <<>>]
Text(t) == [isNull |-> FALSE, text |-> t]
Fenced(t) == <<Tok("fj"), Tok("nl")>> \o t \o <<Tok("nl"), Tok("f")>>

IsSpace(tok) == tok.k \in {"nl", "sp"}
IsDoc(tok) == tok.k \in {"null", "obj", "objv"}

\* What the replace leaves of a string value inside a JSON document: the
\* pattern is global, so fence characters inside the document go as well.
StripStr(str, kind) ==
    IF kind = "fj" /\ str = "<fence>jsonB" THEN "B"
    ELSE IF kind = "f" /\ str = "<fence>B" THEN "B"
    ELSE IF kind = "f" /\ str = "<fence>jsonB" THEN "jsonB"
    ELSE str

StripTok(tok, kind) ==
    IF tok.k = "objv"
    THEN [tok EXCEPT !.v =
            [j \in 1..Len(tok.v) |->
                [tok.v[j] EXCEPT !.title =
                    IF @ = Absent THEN Absent ELSE Some(StripStr(@[1], kind))]]]
    ELSE tok

\* str.replace(/<fence>\n?/g, '') for the fence token kind (line 312).
RECURSIVE RemoveFence(_, _, _)
RemoveFence(t, j, kind) ==
    IF j > Len(t) THEN <<>>
    ELSE IF t[j].k = kind
         THEN IF j + 1 <= Len(t) /\ t[j + 1].k = "nl"
              THEN RemoveFence(t, j + 2, kind)
              ELSE RemoveFence(t, j + 1, kind)
         ELSE <<StripTok(t[j], kind)>> \o RemoveFence(t, j + 1, kind)

\* str.trim() (line 314).
RECURSIVE TrimLeft(_)
TrimLeft(t) == IF t # <<>> /\ IsSpace(t[1]) THEN TrimLeft(Tail(t)) ELSE t
RECURSIVE TrimRight(_)
TrimRight(t) ==
    IF t # <<>> /\ IsSpace(t[Len(t)]) THEN TrimRight(SubSeq(t, 1, Len(t) - 1)) ELSE t
Trim(t) == TrimRight(TrimLeft(t))

\* Mutant: only the opening ```json marker is removed.
CleanJson_jsonFenceOnly(t) == Trim(RemoveFence(t, 1, "fj"))

\* Lines 309-315: the text handed to JSON.parse.
CleanJson(t) == Trim(RemoveFence(RemoveFence(t, 1, "fj"), 1, "f"))

\* JSON.parse (line 317) accepts exactly one JSON value, white space around it
\* allowed; <<>> is a SyntaxError.
JsonParse(t) == IF Len(Trim(t)) = 1 /\ IsDoc(Trim(t)[1]) THEN <<Trim(t)[1]>> ELSE <<>>

\* The flatMap callback (lines 304-324): the vehicles one raw output contributes.
\* A null or empty result, a SyntaxError, and the TypeError of reading
\* .vehicles of null all end in the empty array.
ParseRaw(result) ==
    IF result.isNull \/ result.text = <<>> THEN <<>>
    ELSE LET parsed == JsonParse(CleanJson(result.text))
         IN  IF parsed = <<>> THEN <<>>
             ELSE IF parsed[1].k = "objv" THEN parsed[1].v
             ELSE <<>>

RECURSIVE FlatMapParse(_)
FlatMapParse(rs) ==
    IF rs = <<>> THEN <<>> ELSE ParseRaw(Head(rs)) \o FlatMapParse(Tail(rs))

\* String(x) as the + operator applies it to a possibly undefined value.
ToStr(opt) == IF opt = Absent THEN "undefined" ELSE opt[1]

\* The identity key (line 329), defined when specifications is present.
VehicleKey(v) ==
    ToStr(v.specifications[1].stock_number) \o "-" \o ToStr(v.title)

\* Mutant: a key that is already in the map keeps its first value.
MapSet_firstWins(m, k, v) ==
    IF \E j \in 1..Len(m) : m[j].key = k
    THEN m
    ELSE Append(m, [key |-> k, val |-> v])

\* Mutant: setting a key that is already in the map moves it to the end.
MapSet_moveToEnd(m, k, v) ==
    Append(SelectSeq(m, LAMBDA e : e.key # k), [key |-> k, val |-> v])

\* Map.prototype.set on a map kept as its entries in insertion order.
MapSet(m, k, v) ==
    IF \E j \in 1..Len(m) : m[j].key = k
    THEN [j \in 1..Len(m) |-> IF m[j].key = k THEN [key |-> k, val |-> v] ELSE m[j]]
    ELSE Append(m, [key |-> k, val |-> v])

\* new Map(entries) (line 327).
RECURSIVE NewMap(_, _)
NewMap(m, vs) ==
    IF vs = <<>> THEN m
    ELSE NewMap(MapSet(m, VehicleKey(Head(vs)), Head(vs)), Tail(vs))

\* Array.from(map.values()) (lines 327-332).
MapValues(m) == [j \in 1..Len(m) |-> m[j].val]

UniqueVehicles(vs) == MapValues(NewMap(<<>>, vs))

\* Reading .stock_number of an undefined specifications throws a TypeError
\* (line 329); nothing in mergeResults catches it.
KeyThrows(v) == v.specifications = Absent

\* mergeResults (lines 303-337): threw tells that the call rejected.
MergeResults(rs) ==
    LET allVehicles == FlatMapParse(rs)
    IN  IF \E j \in 1..Len(allVehicles) : KeyThrows(allVehicles[j])
        THEN [threw |-> TRUE, vehicles |-> <<>>]
        ELSE [threw |-> FALSE, vehicles |-> UniqueVehicles(allVehicles)]

\* ------------------------------------------------------- inputs of a run
\* Raw outputs a direct call of mergeResults is given.
RawSet ==
    { Null, Text(<<>>), Text(<<Tok("x")>>),
      Text(<<DocTok(<<vAB1>>), Tok("x")>>),
      Text(<<Tok("null")>>), Text(<<Tok("obj")>>),
      Text(Fenced(<<DocTok(<<vAB2>>)>>)),
      Text(<<Tok("sp"), DocTok(<<vU1, vAB1>>), Tok("nl")>>) }
    \cup { Text(<<DocTok(vs)>>) : vs \in VehicleLists }

SeqsUpTo(S, n) == UNION { [1..m -> S] : m \in 0..n }

\* Pages a run of main meets: n validated listing elements laid out in a grid
\* of c columns, rows 300 apart, elements of two heights, a bottom margin.
GridDom(n, c) ==
    [j \in 1..n |->
        Element(((j - 1) \div c) * 300, IF j % 2 = 1 THEN 250 ELSE 180, 0, 10)]
MainDoms == { PageOf(GridDom(n, c)) : n \in 0..MaxN, c \in {1, 3} }

\* Elements of a directly given geometry list: any order of tops and heights.
CaptureElements == { Element(ot, h, 0, 0) : ot \in {0, 300}, h \in {150, 400} }

\* Elements a locator query can meet. Cards that pass the validation:
eA == Element(0, 250, 0, 10)
eB == Element(300, 180, 0, 10)
\* a card whose only price-or-year mark is a year;
eY == [Element(600, 200, 0, 0) EXCEPT !.hasPrice = FALSE, !.hasYear = TRUE]
\* a card whose top margin reaches above its offset parent;
eM == Element(10, 150, 30, 0)
\* a card pulled together by negative margins.
eN == Element(900, 110, -70, -70)
\* Elements that fail it: too low, too narrow, without an image, with short
\* text, with neither price word nor year.
eS == Element(1200, 80, 0, 0)
eW == [Element(1500, 200, 0, 0) EXCEPT !.offsetWidth = 100, !.rectWidth = 100]
eT == [Element(1800, 250, 0, 10) EXCEPT !.hasImage = FALSE]
eC == [Element(2100, 250, 0, 10) EXCEPT !.textLength = 50]
eQ == [Element(2400, 250, 0, 10) EXCEPT !.hasPrice = FALSE]

\* Node lists of a selector, and img.closest(...) values of strategy 4: null
\* values, and the same ancestor for two images.
NodeLists ==
    { <<>>, <<eS, eT>>, <<eA, eB>>, <<eS, eB, eM>>, <<eQ, eY, eC>>, <<eN, eW>> }
ClosestLists ==
    { <<>>, << <<>>, <<eB>> >>, << <<eB>>, <<eB>>, <<eA>> >>, << <<eT>>, <<>> >> }
LocatePages ==
    { Page(s1, s2, s3, cl) :
        s1 \in NodeLists, s2 \in NodeLists, s3 \in NodeLists, cl \in ClosestLists }

\* Texts that parse as JSON, for the comparison of a text with its fenced form:
\* one JSON value with optional white space around it.
Pads == { <<>>, <<Tok("sp")>>, <<Tok("nl")>>, <<Tok("nl"), Tok("sp")>> }
JsonValues ==
    { DocTok(vs) : vs \in VehicleLists \cup { <<vF1>>, <<vF2, vAB1>>, <<vF1, vF2>> } }
    \cup { Tok("null"), Tok("obj") }
JsonTexts == { lead \o <<d>> \o trail : lead \in Pads, d \in JsonValues, trail \in Pads }

\* What the chat completion's message.content can be (line 296).
VisionContents ==
    { Null, Text(<<>>), Text(<<Tok("x")>>),
      Text(Fenced(<<DocTok(<<vAB1>>)>>)),
      Text(<<DocTok(<<vU2, vAB2>>)>>),
      Text(<<DocTok(<<vNoSpec>>)>>) }

\* ------------------------------------------------------------- history
Ev(op, sec, ph) == [op |-> op, sec |-> sec, ph |-> ph]

\* Section number of the batch that starts at listing index k (lines 387, 402).
SectionNo(k) == (k \div itemsPerSection) + 1

\* An exception leaves the current function: in main it lands in the catch
\* block (line 431); a direct call rejects.
Raise(op, sec) ==
    /\ pc' = IF entry = "main" THEN "caught" ELSE "rejected"
    /\ log' = Append(log, Ev(op, sec, "throw"))

\* A step of main that awaits one browser operation and keeps no value.
Await(from, op, next) ==
    /\ entry = "main"
    /\ pc = from
    /\ \/ pc' = next /\ log' = Append(log, Ev(op, 0, "ret"))
       \/ Raise(op, 0)

\* JavaScript truthiness of a raw output: null and "" are falsy (line 413).
Truthy(raw) == ~raw.isNull /\ raw.text # <<>>

\* ---------------------------------------------------------------- Init
InitCommon ==
    /\ i = 0
    /\ capRet = <<>>
    /\ scrollY = <<>>
    /\ imgPending = 0
    /\ polled = <<>>
    /\ shots = 0
    /\ analysis = Null
    /\ merged = <<>>
    /\ images = {}
    /\ artifact = <<>>
    /\ sections = <<>>
    /\ outputs = <<>>
    /\ scroll = IF entry = "scroll" THEN ScrollStart ELSE ScrollIdle

\* main() is entered (line 436).
InitMain ==
    /\ entry = "main"
    /\ pc = "launch"
    /\ browser = "none"
    /\ dom \in MainDoms
    /\ listings = <<>>
    /\ capStart = 0
    /\ capEnd = 0
    /\ results = <<>>
    /\ log = <<>>
    /\ InitCommon

\* captureListingSection(page, listings, startIndex, endIndex) is entered.
InitCapture ==
    /\ entry = "capture"
    /\ pc = "capEnter"
    /\ browser = "open"
    /\ \E els \in SeqsUpTo(CaptureElements, MaxGeomLen) :
          /\ dom = PageOf(els)
          /\ listings = GeometryOf(els)
    /\ capStart \in 0..(MaxGeomLen + 1)
    /\ capEnd \in 0..(MaxGeomLen + 2)
    /\ results = <<>>
    /\ log = <<Ev("captureListingSection", 0, "call")>>
    /\ InitCommon

\* mergeResults(results) is entered.
InitMerge ==
    /\ entry = "merge"
    /\ pc = "mergeCall"
    /\ browser = "none"
    /\ dom = PageOf(<<>>)
    /\ listings = <<>>
    /\ capStart = 0
    /\ capEnd = 0
    /\ results \in SeqsUpTo(RawSet, MaxResults)
    /\ log = <<>>
    /\ InitCommon

\* mergeResults is given a text T and, in a second call, T inside a fence.
InitFence ==
    /\ entry = "fence"
    /\ pc = "fenceCall"
    /\ browser = "none"
    /\ dom = PageOf(<<>>)
    /\ listings = <<>>
    /\ capStart = 0
    /\ capEnd = 0
    /\ \E t \in JsonTexts, pre \in Pads, post \in Pads :
          results = <<Text(t), Text(pre \o Fenced(t) \o post)>>
    /\ log = <<>>
    /\ InitCommon

\* autoScroll is entered on a page one viewport high.
InitScroll ==
    /\ entry = "scroll"
    /\ pc = "scrolling"
    /\ browser = "open"
    /\ dom = PageOf(<<>>)
    /\ listings = <<>>
    /\ capStart = 0
    /\ capEnd = 0
    /\ results = <<>>
    /\ log = <<>>
    /\ InitCommon

\* getVehicleListings(page) is entered.
InitLocate ==
    /\ entry = "locate"
    /\ pc = "locateCall"
    /\ browser = "open"
    /\ dom \in LocatePages
    /\ listings = <<>>
    /\ capStart = 0
    /\ capEnd = 0
    /\ results = <<>>
    /\ log = <<>>
    /\ InitCommon

Init == InitMain \/ InitCapture

\* ------------------------------------------------------- actions of main
\* puppeteer.launch (lines 341-347).
Launch ==
    /\ entry = "main"
    /\ pc = "launch"
    /\ \/ /\ browser' = "open"
          /\ pc' = "newPage"
          /\ log' = Append(log, Ev("launch", 0, "ret"))
       \/ Raise("launch", 0) /\ UNCHANGED browser
    /\ UNCHANGED <<entry, dom, listings, i, capStart, capEnd, capRet, scrollY,
                   imgPending, shots, analysis, results, merged, images,
                   artifact, sections, outputs, scroll,
                   polled>>

\* browser.newPage, page.setViewport, page.goto (lines 348-360).
Navigate ==
    /\ \/ Await("newPage", "newPage", "setViewport")
       \/ Await("setViewport", "setViewport", "goto")
       \/ Await("goto", "goto", "gate")
    /\ UNCHANGED <<entry, browser, dom, listings, i, capStart, capEnd, capRet,
                   scrollY, imgPending, shots, analysis, results, merged,
                   images, artifact, sections, outputs, scroll,
                   polled>>

\* Mutant: the gate has no catch block, a timeout rejects into main.
WaitForVehicleContent_fatal ==
    /\ entry = "main"
    /\ pc = "gate"
    /\ \/ pc' = "hide" /\ log' = Append(log, Ev("waitForVehicleContent", 0, "ret"))
       \/ Raise("waitForVehicleContent", 0)
    /\ UNCHANGED <<entry, browser, dom, listings, i, capStart, capEnd, capRet,
                   scrollY, imgPending, shots, analysis, results, merged,
                   images, artifact, sections, outputs, scroll,
                   polled>>

\* waitForVehicleContent (lines 93-117, called at 364): the content appears, or
\* waitForFunction rejects and the catch block swallows it.
WaitForVehicleContent ==
    /\ entry = "main"
    /\ pc = "gate"
    /\ pc' = "hide"
    /\ \E ph \in {"ret", "timeout"} :
          log' = Append(log, Ev("waitForVehicleContent", 0, ph))
    /\ UNCHANGED <<entry, browser, dom, listings, i, capStart, capEnd, capRet,
                   scrollY, imgPending, shots, analysis, results, merged,
                   images, artifact, sections, outputs, scroll,
                   polled>>

\* Mutant: the locator is called right after hideFixedElements.
HideFixedElements_skipScroll ==
    /\ Await("hide", "hideFixedElements", "locate")
    /\ UNCHANGED <<entry, browser, dom, listings, i, capStart, capEnd, capRet,
                   scrollY, imgPending, shots, analysis, results, merged,
                   images, artifact, sections, outputs, scroll,
                   polled>>

\* hideFixedElements (lines 13-52, called at 368).
HideFixedElements ==
    /\ Await("hide", "hideFixedElements", "scroll")
    /\ UNCHANGED <<entry, browser, dom, listings, i, capStart, capEnd, capRet,
                   scrollY, imgPending, shots, analysis, results, merged,
                   images, artifact, sections, outputs, scroll,
                   polled>>

\* autoScroll (lines 54-91, called at 372).
AutoScroll ==
    /\ entry = "main"
    /\ pc = "scroll"
    /\ \/ /\ scroll' = ScrollStart
          /\ pc' = "scrolling"
          /\ UNCHANGED log
       \/ Raise("autoScroll", 0) /\ UNCHANGED scroll
    /\ UNCHANGED <<entry, browser, dom, listings, i, capStart, capEnd, capRet,
                   scrollY, imgPending, shots, analysis, results, merged,
                   images, artifact, sections, outputs, polled>>

\* getVehicleListings (lines 119-173, called at 375).
GetVehicleListings ==
    /\ entry = "main"
    /\ pc = "locate"
    /\ \/ /\ listings' = GeometryOf(FindElements(dom))
          /\ pc' = "check"
          /\ log' = Append(log, Ev("getVehicleListings", 0, "ret"))
       \/ Raise("getVehicleListings", 0) /\ UNCHANGED listings
    /\ UNCHANGED <<entry, browser, dom, i, capStart, capEnd, capRet, scrollY,
                   imgPending, shots, analysis, results, merged, images,
                   artifact, sections, outputs, scroll,
                   polled>>

\* Mutant: an empty listing sequence is not treated as fatal.
CheckListings_noAbort ==
    /\ entry = "main"
    /\ pc = "check"
    /\ pc' = "loop" /\ i' = 0 /\ UNCHANGED log
    /\ UNCHANGED <<entry, browser, dom, listings, capStart, capEnd, capRet,
                   scrollY, imgPending, shots, analysis, results, merged,
                   images, artifact, sections, outputs, scroll,
                   polled>>

\* Lines 378-386: the fatal check, then results = [] and i = 0.
CheckListings ==
    /\ entry = "main"
    /\ pc = "check"
    /\ IF Len(listings) = 0
       THEN Raise("No vehicle listings found", 0) /\ UNCHANGED i
       ELSE pc' = "loop" /\ i' = 0 /\ UNCHANGED log
    /\ UNCHANGED <<entry, browser, dom, listings, capStart, capEnd, capRet,
                   scrollY, imgPending, shots, analysis, results, merged,
                   images, artifact, sections, outputs, scroll,
                   polled>>

\* Mutant: the end index handed to the capturer is one too far.
LoopTest_wideBatch ==
    /\ entry = "main"
    /\ pc = "loop"
    /\ IF i < Len(listings)
       THEN /\ pc' = "capEnter"
            /\ capStart' = i
            /\ capEnd' = i + itemsPerSection + 1
            /\ log' = Append(log, Ev("captureListingSection", SectionNo(i), "call"))
       ELSE /\ pc' = "merge"
            /\ UNCHANGED <<capStart, capEnd, log>>
    /\ UNCHANGED <<entry, browser, dom, listings, i, capRet, scrollY,
                   imgPending, shots, analysis, results, merged, images,
                   artifact, sections, outputs, scroll,
                   polled>>

\* The loop test and the call of captureListingSection (lines 386-394).
LoopTest ==
    /\ entry = "main"
    /\ pc = "loop"
    /\ IF i < Len(listings)
       THEN /\ pc' = "capEnter"
            /\ capStart' = i
            /\ capEnd' = i + itemsPerSection
            /\ log' = Append(log, Ev("captureListingSection", SectionNo(i), "call"))
       ELSE /\ pc' = "merge"
            /\ UNCHANGED <<capStart, capEnd, log>>
    /\ UNCHANGED <<entry, browser, dom, listings, i, capRet, scrollY,
                   imgPending, shots, analysis, results, merged, images,
                   artifact, sections, outputs, scroll,
                   polled>>

\* --------------------------------------- actions of captureListingSection
\* The section number the history files the current call under.
CapSec == IF entry = "main" THEN SectionNo(capStart) ELSE 0

\* Lines 176-186: the two null returns, else on to the scroll.
CapEnter ==
    /\ pc = "capEnter"
    /\ IF capStart >= Len(listings) \/ Slice(listings, capStart, capEnd) = <<>>
       THEN pc' = "capReturn" /\ capRet' = <<>>
       ELSE pc' = "capScroll" /\ UNCHANGED capRet
    /\ UNCHANGED <<entry, browser, dom, listings, i, capStart, capEnd, scrollY,
                   imgPending, shots, analysis, results, merged, images,
                   artifact, sections, outputs, log, scroll,
                   polled>>

\* Lines 189-195: window.scrollTo(startY); images may start loading lazily.
CapScroll ==
    /\ pc = "capScroll"
    /\ \/ /\ scrollY' = <<StartY(Slice(listings, capStart, capEnd))>>
          /\ imgPending' \in 0..MaxPending
          /\ polled' = <<>>
          /\ pc' = "capPoll"
          /\ log' = Append(log, Ev("scrollTo", CapSec, "ret"))
       \/ Raise("scrollTo", CapSec) /\ UNCHANGED <<scrollY, imgPending, polled>>
    /\ UNCHANGED <<entry, browser, dom, listings, i, capStart, capEnd, capRet,
                   shots, analysis, results, merged, images, artifact, sections, outputs, scroll>>

\* Mutant: the poll resolves whether or not the images are loaded.
CapPoll_noWait ==
    /\ pc = "capPoll"
    /\ polled' = <<imgPending>>
    /\ pc' = "capSettle"
    /\ log' = Append(log, Ev("checkImages", CapSec, "ret"))
    /\ UNCHANGED <<entry, browser, dom, listings, i, capStart, capEnd, capRet,
                   scrollY, imgPending, shots, analysis, results, merged,
                   images, artifact, sections, outputs, scroll>>

\* checkImages (lines 198-209): resolve when every image is loaded, else
\* re-arm the timer.
CapPoll ==
    /\ pc = "capPoll"
    /\ polled' = <<imgPending>>
    /\ IF imgPending = 0
       THEN pc' = "capSettle" /\ log' = Append(log, Ev("checkImages", CapSec, "ret"))
       ELSE UNCHANGED <<pc, log>>
    /\ UNCHANGED <<entry, browser, dom, listings, i, capStart, capEnd, capRet,
                   scrollY, imgPending, shots, analysis, results, merged,
                   images, artifact, sections, outputs, scroll>>

\* The page finishes loading one image while the function waits on a timer:
\* between two polls (lines 207, 210) or in the settle delay (line 214).
ImageLoads ==
    /\ pc \in {"capPoll", "capSettle"}
    /\ imgPending > 0
    /\ imgPending' = imgPending - 1
    /\ UNCHANGED <<entry, pc, browser, dom, listings, i, capStart, capEnd,
                   capRet, scrollY, shots, analysis, results, merged, images,
                   artifact, sections, outputs, log, scroll, polled>>

\* The page inserts an image that is not loaded yet while the function waits
\* on a timer: between two polls (lines 207, 210) or in the settle delay
\* (line 214).
ImageAppears ==
    /\ pc \in {"capPoll", "capSettle"}
    /\ imgPending < MaxPending
    /\ imgPending' = imgPending + 1
    /\ UNCHANGED <<entry, pc, browser, dom, listings, i, capStart, capEnd,
                   capRet, scrollY, shots, analysis, results, merged, images,
                   artifact, sections, outputs, log, scroll, polled>>

\* The settle delay of 1000 ms is over (line 214).
CapSettle ==
    /\ pc = "capSettle"
    /\ pc' = "capShot"
    /\ UNCHANGED <<entry, browser, dom, listings, i, capStart, capEnd, capRet,
                   scrollY, imgPending, shots, analysis, results, merged,
                   images, artifact, sections, outputs, log, scroll, polled>>

\* Lines 217-238: page.screenshot and the returned object.
CapShot ==
    /\ pc = "capShot"
    /\ shots' = shots + 1
    /\ \/ /\ capRet' = <<SectionCapture(listings, capStart, capEnd)>>
          /\ pc' = "capReturn"
          /\ log' = Append(log, Ev("screenshot", CapSec, "ret"))
       \/ Raise("screenshot", CapSec) /\ UNCHANGED capRet
    /\ UNCHANGED <<entry, browser, dom, listings, i, capStart, capEnd, scrollY,
                   imgPending, analysis, results, merged, images, artifact,
                   sections, outputs, scroll, polled>>

\* The call returns to main, at if (section) (line 396), or to the direct caller.
CapReturn ==
    /\ pc = "capReturn"
    /\ log' = Append(log, Ev("captureListingSection", CapSec, "ret"))
    /\ IF entry # "main" THEN pc' = "done" /\ UNCHANGED i
       ELSE IF capRet # <<>> THEN pc' = "save" /\ UNCHANGED i
       ELSE pc' = "loop" /\ i' = i + itemsPerSection
    /\ sections' = IF entry = "main" /\ capRet # <<>>
                    THEN Append(sections, capRet[1]) ELSE sections
    /\ UNCHANGED <<entry, browser, dom, listings, capStart, capEnd, capRet,
                   scrollY, imgPending, shots, analysis, results, merged,
                   images, artifact, outputs, scroll,
                   polled>>

\* ------------------------------------------------ the rest of the batch
\* fs.writeFileSync of the section image (lines 401-404).
SaveImage ==
    /\ entry = "main"
    /\ pc = "save"
    /\ \/ /\ images' = images \cup {SectionNo(i)}
          /\ pc' = "analyze"
          /\ log' = Append(log, Ev("writeImage", SectionNo(i), "ret"))
       \/ Raise("writeImage", SectionNo(i)) /\ UNCHANGED images
    /\ UNCHANGED <<entry, browser, dom, listings, i, capStart, capEnd, capRet,
                   scrollY, imgPending, shots, analysis, results, merged,
                   artifact, sections, outputs, scroll,
                   polled>>

\* analyzeImageWithGPT4Vision is called (line 408) and sends its request
\* (line 243).
AnalyzeCall ==
    /\ entry = "main"
    /\ pc = "analyze"
    /\ pc' = "visionWait"
    /\ log' = Append(log, Ev("vision", SectionNo(i), "call"))
    /\ UNCHANGED <<entry, browser, dom, listings, i, capStart, capEnd, capRet,
                   scrollY, imgPending, shots, analysis, results, merged,
                   images, artifact, sections, outputs, scroll,
                   polled>>

\* Mutant: analyzeImageWithGPT4Vision lets the exception of the call escape.
VisionReturn_propagates ==
    /\ entry = "main"
    /\ pc = "visionWait"
    /\ \/ \E c \in VisionContents :
             /\ analysis' = c
             /\ log' = Append(log, Ev("vision", SectionNo(i), "ret"))
             /\ outputs' = Append(outputs, analysis')
             /\ pc' = "push"
       \/ /\ Raise("vision", SectionNo(i))
          /\ UNCHANGED <<analysis, outputs>>
    /\ UNCHANGED <<entry, browser, dom, listings, i, capStart, capEnd, capRet,
                   scrollY, imgPending, shots, results, merged, images,
                   artifact, sections, scroll,
                   polled>>

\* The request settles (lines 296-300): the content is returned, or the call
\* threw and the catch block returns null.
VisionReturn ==
    /\ entry = "main"
    /\ pc = "visionWait"
    /\ \/ \E c \in VisionContents :
             /\ analysis' = c
             /\ log' = Append(log, Ev("vision", SectionNo(i), "ret"))
       \/ /\ analysis' = Null
          /\ log' = Append(log, Ev("vision", SectionNo(i), "caught"))
    /\ outputs' = Append(outputs, analysis')
    /\ pc' = "push"
    /\ UNCHANGED <<entry, browser, dom, listings, i, capStart, capEnd, capRet,
                   scrollY, imgPending, shots, results, merged, images,
                   artifact, sections, scroll,
                   polled>>

\* Mutant: the analysis is pushed without the if.
Push_unconditional ==
    /\ entry = "main"
    /\ pc = "push"
    /\ results' = Append(results, analysis)
    /\ pc' = "pace"
    /\ UNCHANGED <<entry, browser, dom, listings, i, capStart, capEnd, capRet,
                   scrollY, imgPending, shots, analysis, merged, images,
                   artifact, sections, outputs, log, scroll,
                   polled>>

\* if (analysis) results.push(analysis) (lines 413-415).
Push ==
    /\ entry = "main"
    /\ pc = "push"
    /\ results' = IF Truthy(analysis) THEN Append(results, analysis) ELSE results
    /\ pc' = "pace"
    /\ UNCHANGED <<entry, browser, dom, listings, i, capStart, capEnd, capRet,
                   scrollY, imgPending, shots, analysis, merged, images,
                   artifact, sections, outputs, log, scroll,
                   polled>>

\* The pacing delay (line 418) and i += itemsPerSection (line 386).
Pace ==
    /\ entry = "main"
    /\ pc = "pace"
    /\ i' = i + itemsPerSection
    /\ pc' = "loop"
    /\ UNCHANGED <<entry, browser, dom, listings, capStart, capEnd, capRet,
                   scrollY, imgPending, shots, analysis, results, merged,
                   images, artifact, sections, outputs, log, scroll,
                   polled>>

\* ------------------------------------------------------ the end of main
\* await mergeResults(results) (line 424); a rejection lands in the catch block.
Merge ==
    /\ entry = "main"
    /\ pc = "merge"
    /\ merged' = <<MergeResults(results)>>
    /\ IF MergeResults(results).threw
       THEN Raise("mergeResults", 0)
       ELSE pc' = "write" /\ log' = Append(log, Ev("mergeResults", 0, "ret"))
    /\ UNCHANGED <<entry, browser, dom, listings, i, capStart, capEnd, capRet,
                   scrollY, imgPending, shots, analysis, results, images,
                   artifact, sections, outputs, scroll,
                   polled>>

\* fs.writeFileSync('extracted_data.json', ...) (line 427).
WriteFinal ==
    /\ entry = "main"
    /\ pc = "write"
    /\ \/ /\ artifact' = <<[vehicles |-> merged[1].vehicles]>>
          /\ pc' = "close"
          /\ log' = Append(log, Ev("writeFinal", 0, "ret"))
       \/ Raise("writeFinal", 0) /\ UNCHANGED artifact
    /\ UNCHANGED <<entry, browser, dom, listings, i, capStart, capEnd, capRet,
                   scrollY, imgPending, shots, analysis, results, merged,
                   images, sections, outputs, scroll,
                   polled>>

\* browser.close (line 430).
Close ==
    /\ entry = "main"
    /\ pc = "close"
    /\ \/ /\ browser' = "closed"
          /\ pc' = "done"
          /\ log' = Append(log, Ev("close", 0, "ret"))
       \/ Raise("close", 0) /\ UNCHANGED browser
    /\ UNCHANGED <<entry, dom, listings, i, capStart, capEnd, capRet, scrollY,
                   imgPending, shots, analysis, results, merged, images,
                   artifact, sections, outputs, scroll,
                   polled>>

\* Mutant: the handler salvages what was gathered and goes on to the merge.
Catch_salvage ==
    /\ entry = "main"
    /\ pc = "caught"
    /\ pc' = "merge"
    /\ log' = Append(log, Ev("console.error", 0, "ret"))
    /\ UNCHANGED <<entry, browser, dom, listings, i, capStart, capEnd, capRet,
                   scrollY, imgPending, shots, analysis, results, merged,
                   images, artifact, sections, outputs, scroll,
                   polled>>

\* The catch block of main (lines 431-433) logs the error; main returns.
Catch ==
    /\ entry = "main"
    /\ pc = "caught"
    /\ pc' = "done"
    /\ log' = Append(log, Ev("console.error", 0, "ret"))
    /\ UNCHANGED <<entry, browser, dom, listings, i, capStart, capEnd, capRet,
                   scrollY, imgPending, shots, analysis, results, merged,
                   images, artifact, sections, outputs, scroll,
                   polled>>

\* A direct call of mergeResults (lines 303-337).
MergeDirect ==
    /\ entry = "merge"
    /\ pc = "mergeCall"
    /\ merged' = <<MergeResults(results)>>
    /\ pc' = IF MergeResults(results).threw THEN "rejected" ELSE "done"
    /\ UNCHANGED <<entry, browser, dom, listings, i, capStart, capEnd, capRet,
                   scrollY, imgPending, shots, analysis, results, images,
                   artifact, sections, outputs, log, scroll,
                   polled>>

\* mergeResults([T]) and mergeResults([fenced T]) (lines 303-337).
FenceMerge ==
    /\ entry = "fence"
    /\ pc = "fenceCall"
    /\ merged' = <<MergeResults(<<results[1]>>), MergeResults(<<results[2]>>)>>
    /\ pc' = "done"
    /\ UNCHANGED <<entry, browser, dom, listings, i, capStart, capEnd, capRet,
                   scrollY, imgPending, shots, analysis, results, images,
                   artifact, sections, outputs, log, scroll,
                   polled>>

\* Mutant: the stall branch stops one check late.
ScrollTick_lateStall ==
    /\ pc = "scrolling"
    /\ scroll.timer = "running"
    /\ \E b \in DocumentAfter(entry, scroll.blocks) :
          scroll' = TickWith([scroll EXCEPT !.blocks = b], ScrollHeightOf(b),
                             stallChecks + 1)
    /\ UNCHANGED <<entry, pc, browser, dom, listings, i, capStart, capEnd,
                   capRet, scrollY, imgPending, shots, analysis, results,
                   merged, images, artifact, sections, outputs, log,
                   polled>>

\* The interval fires (lines 64-88): the document may have changed since the
\* previous tick; the callback runs while the timer is not cleared.
ScrollTick ==
    /\ pc = "scrolling"
    /\ scroll.timer = "running"
    /\ \E b \in DocumentAfter(entry, scroll.blocks) :
          scroll' = TickWith([scroll EXCEPT !.blocks = b], ScrollHeightOf(b),
                             stallChecks)
    /\ UNCHANGED <<entry, pc, browser, dom, listings, i, capStart, capEnd,
                   capRet, scrollY, imgPending, shots, analysis, results,
                   merged, images, artifact, sections, outputs, log,
                   polled>>

\* The promise is resolved: page.evaluate and autoScroll return (lines 55-91).
ScrollReturn ==
    /\ pc = "scrolling"
    /\ scroll.resolved > 0
    /\ IF entry = "main"
       THEN pc' = "locate" /\ log' = Append(log, Ev("autoScroll", 0, "ret"))
       ELSE pc' = "done" /\ UNCHANGED log
    /\ UNCHANGED <<entry, browser, dom, listings, i, capStart, capEnd,
                   capRet, scrollY, imgPending, shots, analysis, results,
                   merged, images, artifact, sections, outputs, scroll,
                   polled>>

\* getVehicleListings (lines 119-173) called on its own.
Locate ==
    /\ entry = "locate"
    /\ pc = "locateCall"
    /\ listings' = GeometryOf(FindElements(dom))
    /\ pc' = "done"
    /\ UNCHANGED <<entry, browser, dom, i, capStart, capEnd, capRet, scrollY,
                   imgPending, shots, analysis, results, merged, images,
                   artifact, sections, outputs, log, scroll,
                   polled>>

Next ==
    \/ Launch \/ Navigate \/ WaitForVehicleContent \/ HideFixedElements
    \/ AutoScroll \/ GetVehicleListings \/ CheckListings \/ LoopTest
    \/ CapEnter \/ CapScroll \/ CapPoll \/ ImageLoads \/ ImageAppears
    \/ CapSettle \/ CapShot \/ CapReturn
    \/ ScrollTick \/ ScrollReturn
    \/ SaveImage \/ AnalyzeCall \/ VisionReturn \/ Push \/ Pace
    \/ Merge \/ WriteFinal \/ Close \/ Catch

Spec == Init /\ [][Next]_vars

NextMerge == MergeDirect

SpecMerge == InitMerge /\ [][NextMerge]_vars

NextFence == FenceMerge

SpecFence == InitFence /\ [][NextFence]_vars

NextLocate == Locate

SpecLocate == InitLocate /\ [][NextLocate]_vars

NextScroll == ScrollTick \/ ScrollReturn

\* The interval timer fires as long as it is set, and a resolved promise is
\* delivered to the awaiting caller.
SpecScroll ==
    InitScroll /\ [][NextScroll]_vars /\ WF_vars(ScrollTick) /\ WF_vars(ScrollReturn)

\* =========================================================== properties
\* Positions of the history that hold the event.
Where(op, sec, ph) == { p \in 1..Len(log) : log[p] = Ev(op, sec, ph) }
Happened(op, sec, ph) == Where(op, sec, ph) # {}

\* Number of sections a page of n listings is cut into: ceil(n / itemsPerSection).
SectionCount(n) == (n + itemsPerSection - 1) \div itemsPerSection

\* The capture requests main has issued so far, in order.
CaptureCalls ==
    SelectSeq(log, LAMBDA e : e.op = "captureListingSection" /\ e.ph = "call")

\* The batch loop has run to its end (line 420).
LoopDone == entry = "main" /\ (pc \in {"merge", "write", "close"} \/ merged # <<>>)

\* C1: the batch loop of main issues its capture requests in ascending section
\* order, one per section; every section that comes back covers the indices
\* [k*(j-1), min(k*j, N)) of its section j, so that once the loop has ended
\* there were exactly ceil(N/k) requests, every listing index lies in exactly one
\* returned range and the last range ends at N. A call with startIndex >= N
\* returns null and neither scrolls nor takes a screenshot.
C1_SectionSlicing ==
    /\ entry = "main" =>
          /\ \A j \in 1..Len(CaptureCalls) : CaptureCalls[j].sec = j
          /\ \A j \in 1..Len(sections) :
                /\ sections[j].startIndex = itemsPerSection * (j - 1)
                /\ sections[j].endIndex = Min(itemsPerSection * j, Len(listings))
          /\ LoopDone =>
                /\ Len(CaptureCalls) = SectionCount(Len(listings))
                /\ Len(sections) = SectionCount(Len(listings))
                /\ \A idx \in 0..(Len(listings) - 1) :
                      Cardinality({ j \in 1..Len(sections) :
                          sections[j].startIndex <= idx /\ idx < sections[j].endIndex }) = 1
                /\ sections[Len(sections)].endIndex = Len(listings)
    /\ (entry = "capture" /\ capStart >= Len(listings)) =>
          /\ pc \in {"capEnter", "capReturn", "done"}
          /\ capRet = <<>>
          /\ scrollY = <<>>
          /\ shots = 0

\* A run over a page whose last section is partial has left the loop after
\* three sections.
C1_Witness ==
    /\ LoopDone
    /\ Len(sections) = 3
    /\ Len(listings) % itemsPerSection # 0

\* C2 (as claimed): the rectangle of every captured section contains the
\* vertical span of each listing of the section, and its height is positive.
C2_BoundaryContainment ==
    capRet # <<>> =>
        LET c == capRet[1]
        IN  /\ \A idx \in c.startIndex..(c.endIndex - 1) :
                  /\ c.dimensions.startY <= listings[idx + 1].top
                  /\ listings[idx + 1].bottom <= c.dimensions.endY
            /\ c.dimensions.height > 0

\* ------------------------------------------------ properties of the merge
\* mergeResults has settled: it returned (done) or rejected.
MergeSettled == entry = "merge" /\ pc \in {"done", "rejected"}

\* A valid entry: a non-null text that JSON.parse accepts once cleaned.
IsValidEntry(raw) == ~raw.isNull /\ JsonParse(CleanJson(raw.text)) # <<>>

\* The vehicles arrays of the valid entries, one after the other.
RECURSIVE ValidVehicles(_)
ValidVehicles(rs) ==
    IF rs = <<>> THEN <<>>
    ELSE (IF IsValidEntry(Head(rs)) /\ JsonParse(CleanJson(Head(rs).text))[1].k = "objv"
          THEN JsonParse(CleanJson(Head(rs).text))[1].v ELSE <<>>)
         \o ValidVehicles(Tail(rs))

\* Key of a record as the data model defines it, absent values included.
StockOf(v) == IF v.specifications = Absent THEN Absent
              ELSE v.specifications[1].stock_number
IdentityKey(v) == ToStr(StockOf(v)) \o "-" \o ToStr(v.title)

\* Index of the last record of vs whose key is k.
LastWith(vs, k) ==
    CHOOSE j \in 1..Len(vs) :
        /\ IdentityKey(vs[j]) = k
        /\ \A m \in (j + 1)..Len(vs) : IdentityKey(vs[m]) # k

KeysOf(vs) == { IdentityKey(vs[j]) : j \in 1..Len(vs) }

\* C3 (as claimed): whatever null and malformed entries are interleaved with
\* the valid ones, no exception escapes mergeResults and it returns one
\* record per key of the valid entries' vehicles, the null and malformed
\* entries contributing nothing.
C3_NullTolerance ==
    MergeSettled =>
        /\ pc = "done"
        /\ ~merged[1].threw
        /\ LET vs == ValidVehicles(results)
               out == merged[1].vehicles
           IN  /\ KeysOf(out) = KeysOf(vs)
               /\ Len(out) = Cardinality(KeysOf(vs))
               /\ \A j \in 1..Len(out) : \E m \in 1..Len(vs) : out[j] = vs[m]

\* A record that has neither a stock number nor a title.
LacksBoth(v) == StockOf(v) = Absent /\ v.title = Absent

\* C4 (as claimed): mergeResults returns a MergedResult for records with any
\* field absent, the specifications object included, and the records that lack
\* both stock_number and title end up as a single record.
C4_AbsentFields ==
    MergeSettled =>
        /\ ~merged[1].threw
        /\ Cardinality({ j \in 1..Len(merged[1].vehicles) :
                            LacksBoth(merged[1].vehicles[j]) }) <= 1

\* C5: when mergeResults returns, its vehicles hold exactly one record per
\* distinct identity key of the flattened input, that record is the last one
\* of the flattened input with that key, and no two output records have equal
\* stock_number and title.
C5_DedupLastWins ==
    (MergeSettled /\ pc = "done") =>
        LET all == FlatMapParse(results)
            out == merged[1].vehicles
        IN  /\ \A k \in KeysOf(all) :
                  /\ Cardinality({ j \in 1..Len(out) : IdentityKey(out[j]) = k }) = 1
                  /\ \E j \in 1..Len(out) : out[j] = all[LastWith(all, k)]
            /\ KeysOf(out) = KeysOf(all)
            /\ \A a, b \in 1..Len(out) :
                  (a # b) => ~(/\ StockOf(out[a]) = StockOf(out[b])
                               /\ out[a].title = out[b].title)

\* Two sections each bring a record of the same key; only the later one is
\* in the result.
C5_Witness ==
    /\ MergeSettled
    /\ pc = "done"
    /\ Len(results) >= 2
    /\ \E a, b \in 1..Len(FlatMapParse(results)) :
          /\ a < b
          /\ IdentityKey(FlatMapParse(results)[a]) = IdentityKey(FlatMapParse(results)[b])
          /\ FlatMapParse(results)[a] # FlatMapParse(results)[b]
          /\ \A m \in (b + 1)..Len(FlatMapParse(results)) :
                IdentityKey(FlatMapParse(results)[m]) # IdentityKey(FlatMapParse(results)[b])
          /\ \E j \in 1..Len(merged[1].vehicles) :
                merged[1].vehicles[j] = FlatMapParse(results)[b]
          /\ \A j \in 1..Len(merged[1].vehicles) :
                merged[1].vehicles[j] # FlatMapParse(results)[a]

\* ---------------------------------------------- properties of a run of main
\* The Listing Locator returned and found nothing.
NoListings ==
    entry = "main" /\ Happened("getVehicleListings", 0, "ret") /\ Len(listings) = 0

\* C6: when the Listing Locator returns an empty sequence the run ends through
\* the 'No vehicle listings found' error: no capture and no vision call is made,
\* no section image and no extracted_data.json is written.
C6_EmptyListingAbort ==
    NoListings =>
        /\ pc \in {"check", "caught", "done"}
        /\ pc # "check" => Happened("No vehicle listings found", 0, "throw")
        /\ \A p \in 1..Len(log) :
              log[p].op \notin {"captureListingSection", "scrollTo", "checkImages",
                                "screenshot", "writeImage", "vision",
                                "mergeResults", "writeFinal"}
        /\ shots = 0
        /\ outputs = <<>>
        /\ images = {}
        /\ merged = <<>>
        /\ artifact = <<>>

\* The run over an empty page has ended.
C6_Witness ==
    /\ NoListings
    /\ pc = "done"
    /\ Happened("No vehicle listings found", 0, "throw")

\* The outputs of the sections whose vision call did not fail, in order.
RECURSIVE OtherOutputs(_)
OtherOutputs(n) ==
    IF n = 0 THEN <<>>
    ELSE IF Happened("vision", n, "caught") THEN OtherOutputs(n - 1)
         ELSE Append(OtherOutputs(n - 1), outputs[n])

\* C7: a vision call that throws is never propagated: the call returns null,
\* the flow goes on with the same batch's pacing delay and the loop, which still
\* captures and analyzes every section, and a final artifact that is written
\* holds the merge of the other sections' outputs, the failed section adding
\* nothing.
C7_VisionFailureIsLocal ==
    entry = "main" =>
        /\ \A p \in 1..Len(log) : ~(log[p].op = "vision" /\ log[p].ph = "throw")
        /\ \A n \in 1..Len(outputs) :
              Happened("vision", n, "caught") => outputs[n] = Null
        /\ (log # <<>> /\ log[Len(log)].op = "vision" /\ log[Len(log)].ph = "caught")
              => (pc \in {"push", "pace", "loop", "merge"} /\ analysis = Null)
        /\ LoopDone =>
              /\ Len(sections) = SectionCount(Len(listings))
              /\ Len(outputs) = SectionCount(Len(listings))
        /\ pc \in {"write", "close"} => merged # <<>>
        /\ artifact # <<>> =>
              /\ ~MergeResults(OtherOutputs(Len(outputs))).threw
              /\ artifact[1].vehicles = MergeResults(OtherOutputs(Len(outputs))).vehicles

\* The vision call of section 1 threw, a later section was analyzed and its
\* vehicles are in the written artifact.
C7_Witness ==
    /\ entry = "main"
    /\ Happened("vision", 1, "caught")
    /\ Len(outputs) >= 2
    /\ artifact # <<>>
    /\ artifact[1].vehicles # <<>>

\* Every event of operation b has a completed operation a before it.
Precedes(a, b) ==
    \A p \in 1..Len(log) :
        log[p].op = b =>
            \E q \in 1..(p - 1) : log[q].op = a /\ log[q].ph \in {"ret", "timeout"}

\* C8 (as claimed): hideFixedElements, then autoScroll, then
\* waitForVehicleContent, then getVehicleListings.
C8_PreparerBeforeGate ==
    /\ Precedes("hideFixedElements", "autoScroll")
    /\ Precedes("autoScroll", "waitForVehicleContent")
    /\ Precedes("waitForVehicleContent", "getVehicleListings")

\* C8 (amended): the readiness gate waitForVehicleContent completes first, then
\* hideFixedElements, then autoScroll, and getVehicleListings is called only
\* after autoScroll has completed.
C8_GateBeforePreparer ==
    /\ Precedes("waitForVehicleContent", "hideFixedElements")
    /\ Precedes("hideFixedElements", "autoScroll")
    /\ Precedes("autoScroll", "getVehicleListings")

\* The Listing Locator has been called and returned.
C8_Witness == entry = "main" /\ Happened("getVehicleListings", 0, "ret")

\* Every event e of section n has event f of the same section before it.
After(opE, phE, opF, phsF, shift) ==
    \A p \in 1..Len(log) :
        (log[p].op = opE /\ log[p].ph = phE /\ log[p].sec - shift >= 1) =>
            \E q \in 1..(p - 1) :
                /\ log[q].op = opF
                /\ log[q].ph \in phsF
                /\ log[q].sec = log[p].sec - shift

MergeEvents == { p \in 1..Len(log) : log[p].op = "mergeResults" }
WriteEvents == { p \in 1..Len(log) : log[p].op = "writeFinal" }

\* The part of C9 about the order of the calls: one capture per section, at
\* most one vision call per section, capture n before vision n before capture
\* n + 1, one merge after the last batch, one write of the artifact after it.
StrictlySequential ==
    /\ \A j \in 1..Len(CaptureCalls) : CaptureCalls[j].sec = j
    /\ \A n \in 1..Len(CaptureCalls) :
          /\ Cardinality(Where("vision", n, "call")) <= 1
          /\ Cardinality(Where("vision", n, "ret") \cup Where("vision", n, "caught")) <= 1
    /\ After("captureListingSection", "ret", "captureListingSection", {"call"}, 0)
    /\ After("vision", "call", "captureListingSection", {"ret"}, 0)
    /\ After("vision", "ret", "vision", {"call"}, 0)
    /\ After("vision", "caught", "vision", {"call"}, 0)
    /\ After("captureListingSection", "call", "vision", {"ret", "caught"}, 1)
    /\ Cardinality(MergeEvents) <= 1
    /\ Cardinality(WriteEvents) <= 1
    /\ \A p \in MergeEvents :
          /\ Len(outputs) = SectionCount(Len(listings))
          /\ \A q \in (p + 1)..Len(log) :
                log[q].op \notin {"captureListingSection", "vision"}
    /\ \A p \in WriteEvents : \E q \in 1..(p - 1) : log[q] = Ev("mergeResults", 0, "ret")
    /\ (pc \in {"write", "close"} \/ artifact # <<>>) => Cardinality(MergeEvents) = 1

\* C9 (as claimed): strictly sequential, and each non-null raw output is in
\* results exactly once, in section order.
C9_NonNullAppended ==
    entry = "main" =>
        /\ StrictlySequential
        /\ pc \notin {"push"} =>
              results = SelectSeq(outputs, LAMBDA r : ~r.isNull)

\* C9 (amended): strictly sequential, and each raw output that is neither null
\* nor the empty string is in results exactly once, in section order; a null
\* or empty output is not appended.
C9_SequentialBatches ==
    entry = "main" =>
        /\ StrictlySequential
        /\ pc \notin {"push"} =>
              results = SelectSeq(outputs, LAMBDA r : ~r.isNull /\ r.text # <<>>)

\* Three sections went through, one gave the empty string, the artifact is
\* written.
C9_Witness ==
    /\ entry = "main"
    /\ artifact # <<>>
    /\ Len(outputs) = 3
    /\ outputs[2] = Text(<<>>)
    /\ Len(results) = 2

ThrowEvents == { p \in 1..Len(log) : log[p].ph = "throw" }

\* Browser (navigation, in-page evaluation, capture) and filesystem operations.
BrowserOrFsOps ==
    {"launch", "newPage", "setViewport", "goto", "hideFixedElements",
     "autoScroll", "getVehicleListings", "scrollTo", "screenshot", "writeImage",
     "writeFinal"}

\* C10: an exception thrown in the top-level flow is caught once and the run
\* ends: nothing follows it but the handler's log line. When a browser or
\* filesystem operation threw, extracted_data.json is not written and, unless
\* it was the final write itself, mergeResults has not run; when it threw in
\* section n, the images of sections 1..n-1 are there, no later section was
\* captured or analyzed and section n was not captured again.
C10_OutermostHandler ==
    entry = "main" =>
        /\ Cardinality(ThrowEvents) <= 1
        /\ Cardinality(Where("console.error", 0, "ret")) <= 1
        /\ \A p \in ThrowEvents :
              /\ p = Len(log) => pc = "caught"
              /\ p # Len(log) =>
                    /\ p = Len(log) - 1
                    /\ log[Len(log)] = Ev("console.error", 0, "ret")
                    /\ pc = "done"
              /\ log[p].op \in BrowserOrFsOps =>
                    /\ artifact = <<>>
                    /\ log[p].op # "writeFinal" => merged = <<>>
              /\ log[p].op \in {"scrollTo", "screenshot", "writeImage"} =>
                    /\ images = 1..(log[p].sec - 1)
                    /\ Len(outputs) = log[p].sec - 1
                    /\ Len(CaptureCalls) = log[p].sec
        /\ pc = "caught" => ThrowEvents # {}

\* page.screenshot threw in section 2; the run has ended and the image of
\* section 1 is still there.
C10_Witness ==
    /\ entry = "main"
    /\ pc = "done"
    /\ Happened("screenshot", 2, "throw")
    /\ images = {1}
    /\ artifact = <<>>

\* The invariant of a SectionCapture c taken from n listings.
WellFormedCapture(c, n) ==
    /\ c.startIndex < c.endIndex
    /\ c.endIndex <= n
    /\ c.itemCount = c.endIndex - c.startIndex

\* C11: every non-null SectionCapture has startIndex < endIndex <= number of
\* listings and itemCount = endIndex - startIndex, and those captured in a run
\* of main span at most itemsPerSection listings.
C11_CaptureInvariant ==
    /\ capRet # <<>> => WellFormedCapture(capRet[1], Len(listings))
    /\ entry = "main" =>
          /\ capRet # <<>> =>
                capRet[1].endIndex - capRet[1].startIndex <= itemsPerSection
          /\ \A j \in 1..Len(sections) :
                /\ WellFormedCapture(sections[j], Len(listings))
                /\ sections[j].endIndex - sections[j].startIndex <= itemsPerSection

\* A run has captured a full section and then a partial one of one listing.
C11_Witness ==
    /\ entry = "main"
    /\ Len(sections) >= 2
    /\ sections[1].itemCount = itemsPerSection
    /\ sections[2].itemCount = 1

\* C12: a timeout of waitForVehicleContent is swallowed inside the gate: the
\* gate never raises into main, and right after it, timed out or not, the flow
\* stands before hideFixedElements with the browser open and nothing else
\* changed; no later end of the run is an exception of the gate.
C12_AdvisoryTimeout ==
    entry = "main" =>
        /\ \A p \in 1..Len(log) :
              ~(log[p].op = "waitForVehicleContent" /\ log[p].ph = "throw")
        /\ \A p \in 1..Len(log) :
              log[p].op = "waitForVehicleContent" => log[p].ph \in {"ret", "timeout"}
        /\ (log # <<>> /\ log[Len(log)].op = "waitForVehicleContent") =>
              /\ pc = "hide"
              /\ browser = "open"
              /\ listings = <<>>
              /\ results = <<>>
              /\ images = {}
              /\ artifact = <<>>
        /\ (Happened("waitForVehicleContent", 0, "timeout") /\ Len(log) >= 6) =>
              log[6].op = "hideFixedElements"

\* The gate timed out and the run still went through to the written artifact
\* and the closed browser.
C12_Witness ==
    /\ entry = "main"
    /\ Happened("waitForVehicleContent", 0, "timeout")
    /\ artifact # <<>>
    /\ browser = "closed"

\* C13: for a text T that parses as JSON, merging [T inside a ```json fence,
\* with optional white space around the fence] gives the same MergedResult,
\* or the same rejection, as merging [T], and both calls parse the same
\* vehicles.
C13_FencedParsesAlike ==
    (entry = "fence" /\ pc = "done") =>
        /\ merged[1] = merged[2]
        /\ ParseRaw(results[1]) = ParseRaw(results[2])
        /\ Len(ParseRaw(results[2])) =
              Len(SelectSeq(results[1].text, IsDoc)[1].v)

\* A fenced text with white space around the fence gave two vehicles.
C13_Witness ==
    /\ entry = "fence"
    /\ pc = "done"
    /\ results[2].text[1] = Tok("nl")
    /\ ~merged[2].threw
    /\ Len(merged[2].vehicles) = 2

\* The newest stallChecks + 1 readings are one and the same height.
StalledNow ==
    /\ Len(scroll.seen) = stallChecks + 1
    /\ \A a \in 1..Len(scroll.seen) : scroll.seen[a] = scroll.seen[1]

\* The retry counter stood at the maximum when the last tick checked it.
CeilingNow == scroll.retries - 1 >= maxRetries

C14_StopsExactly ==
    entry = "scroll" =>
        /\ scroll.retries <= maxRetries + 1
        /\ scroll.totalHeight = distance * scroll.retries
        /\ scroll.retries >= 1 =>
              (scroll.timer = "cleared" <=> (StalledNow \/ CeilingNow))
        /\ scroll.retries = 0 => scroll.timer = "running"
        /\ scroll.timer = "cleared" => scroll.resolved >= 1
        /\ pc \in {"scrolling", "done"}
        /\ pc = "done" => scroll.timer = "cleared"

\* C14: autoScroll always terminates, whatever the scroll height does between
\* ticks: the timer is cleared at the first tick at which the height was read
\* unchanged on 5 consecutive checks or the retry counter had reached 50, at
\* no tick where neither holds, and the call then returns without raising.
C14_AutoScrollTerminates ==
    /\ []C14_StopsExactly
    /\ (entry = "scroll") ~> (pc = "done")

\* The document grew before every tick and the ceiling stopped the scrolling.
C14_Witness ==
    /\ entry = "scroll"
    /\ pc = "done"
    /\ scroll.blocks = maxRetries + 2
    /\ scroll.unchangedCount = 0
    /\ scroll.retries = maxRetries + 1

\* The document stopped changing and the stall check stopped the scrolling.
C14_WitnessStall ==
    /\ entry = "scroll"
    /\ pc = "done"
    /\ scroll.unchangedCount = stallChecks
    /\ scroll.retries = stallChecks + 3
    /\ scroll.blocks = 3

\* The page.screenshot calls made so far, failed ones included.
ScreenshotEvents == { p \in 1..Len(log) : log[p].op = "screenshot" }

\* C15: in captureListingSection the screenshot is taken only after the
\* scroll to startY and after a poll that saw every image loaded; while the
\* polls see an image missing the function polls on and takes no screenshot,
\* and a poll that sees all images loaded leads on to the screenshot.
C15_ShotAfterImages ==
    /\ \A p \in ScreenshotEvents :
          \E a \in 1..(p - 1) :
              /\ log[a] = Ev("scrollTo", log[p].sec, "ret")
              /\ log[p - 1] = Ev("checkImages", log[p].sec, "ret")
              /\ a < p - 1
    /\ Cardinality(ScreenshotEvents) = shots
    /\ pc \in {"capPoll", "capSettle", "capShot"} =>
          /\ scrollY = <<StartY(Slice(listings, capStart, capEnd))>>
          /\ ~Happened("screenshot", CapSec, "ret")
          /\ ~Happened("screenshot", CapSec, "throw")
    /\ pc = "capPoll" =>
          /\ polled # <<0>>
          /\ ~Happened("checkImages", CapSec, "ret")
          /\ log[Len(log)] = Ev("scrollTo", CapSec, "ret")
    /\ pc \in {"capSettle", "capShot"} =>
          /\ polled = <<0>>
          /\ log[Len(log)] = Ev("checkImages", CapSec, "ret")
    /\ (log # <<>> /\ log[Len(log)].op = "checkImages") =>
          /\ pc \in {"capSettle", "capShot"}
          /\ polled = <<0>>
    /\ (log # <<>> /\ log[Len(log)].op = "screenshot") => polled = <<0>>
    /\ (log # <<>> /\ log[Len(log)] = Ev("screenshot", CapSec, "ret")) =>
          /\ pc = "capReturn"
          /\ capRet # <<>>

\* The first section was captured after its poll, and in the second call a
\* poll has found an image still loading and no second screenshot is taken.
C15_Witness ==
    /\ entry = "main"
    /\ Len(sections) = 1
    /\ shots = 1
    /\ pc = "capPoll"
    /\ imgPending > 0
    /\ polled = <<imgPending>>
    /\ scrollY # <<>>

\* An image was inserted during the settle delay: the screenshot was taken
\* with an image not loaded.
C15_ShotWithImageMissing ==
    /\ entry = "capture"
    /\ pc = "done"
    /\ shots = 1
    /\ capRet # <<>>
    /\ imgPending = 1

\* The strategies that find an element passing the validation.
Succeeding ==
    { k \in 1..4 : \E j \in 1..Len(Candidates(dom, k)) : IsValid(Candidates(dom, k)[j]) }

\* The first of them in the priority order.
FirstSucceeding == CHOOSE k \in Succeeding : \A m \in Succeeding : k <= m

\* sub is seq, element for element in the same order, with the candidates that
\* fail the validation left out.
IsValidatedPart(sub, seq) ==
    LET keep == { j \in 1..Len(seq) : IsValid(seq[j]) }
    IN  /\ Len(sub) = Cardinality(keep)
        /\ \A a \in 1..Len(sub) :
              \E j \in keep :
                  /\ Cardinality({ m \in keep : m <= j }) = a
                  /\ sub[a] = ListingGeometry(seq[j])

\* C16: the locator returns the validated elements of the first strategy, in
\* the order 1..4, that has an element passing the validation, in the order
\* that strategy lists them; nothing of a later strategy is returned, and the
\* result is empty exactly when no strategy has a validated element.
C16_FirstValidStrategy ==
    (entry = "locate" /\ pc = "done") =>
        /\ (listings = <<>>) <=> (Succeeding = {})
        /\ Succeeding # {} =>
              IsValidatedPart(listings, Candidates(dom, FirstSucceeding))

\* Strategy 1 found only elements that fail the validation, strategy 2 found
\* one valid element among three, and strategy 3 would have given others.
C16_Witness ==
    /\ entry = "locate"
    /\ pc = "done"
    /\ dom.sel = << <<eS, eT>>, <<eQ, eY, eC>>, <<eA, eB>> >>
    /\ listings = <<ListingGeometry(eY)>>

\* C17 (as claimed): every ListingGeometry record getVehicleListings produces
\* has top >= 0 and height > 0, whatever the margins of the validated
\* element, and its bottom equals top + height.
C17_GeometryInvariants ==
    (entry = "locate" /\ pc = "done") =>
        \A j \in 1..Len(listings) :
            /\ listings[j].top >= 0
            /\ listings[j].height > 0
            /\ listings[j].bottom = listings[j].top + listings[j].height

\* Index of the first record of vs whose key is k.
FirstWith(vs, k) ==
    CHOOSE j \in 1..Len(vs) :
        /\ IdentityKey(vs[j]) = k
        /\ \A m \in 1..(j - 1) : IdentityKey(vs[m]) # k

\* C18: the vehicles mergeResults returns list the distinct identity keys in
\* the order of their first occurrence in the flattened input, each with the
\* record of its last occurrence; the output is as long as there are distinct
\* keys, never longer than the input, and made of input records only.
C18_FirstOrderLastValue ==
    (MergeSettled /\ pc = "done") =>
        LET all == FlatMapParse(results)
            out == merged[1].vehicles
        IN  /\ Len(out) = Cardinality(KeysOf(all))
            /\ Len(out) <= Len(all)
            /\ \A j \in 1..Len(out) :
                  /\ \E m \in 1..Len(all) : out[j] = all[m]
                  /\ out[j] = all[LastWith(all, IdentityKey(out[j]))]
            /\ \A a, b \in 1..Len(out) :
                  (a < b) => FirstWith(all, IdentityKey(out[a]))
                                < FirstWith(all, IdentityKey(out[b]))

\* A key seen first came again after another key: it stays first in the
\* output, with its later record.
C18_Witness ==
    /\ MergeSettled
    /\ pc = "done"
    /\ FlatMapParse(results) = <<vAB1, vU1, vAB2>>
    /\ merged[1].vehicles = <<vAB2, vU1>>

\* C19 (as claimed): in every run in which the browser was launched, the
\* browser is closed when the run has ended, on the success path and when the
\* run ended through the outermost error handler.
C19_BrowserClosedAtEnd ==
    (entry = "main" /\ pc = "done" /\ Happened("launch", 0, "ret")) =>
        browser = "closed"

====
